---- MODULE Spec2Model ----
(***************************************************************************)
(* Model of the repacking phase of scripts/release_manager.py:              *)
(* unmount_dmg, recursive_find_app, try_repack and preprocess_files.        *)
(*                                                                         *)
(* Text (file names, versions, paths) is a sequence of one-character        *)
(* strings, so that the suffix tests, the substring tests on str(path) and  *)
(* the regular expressions of the source are computed, not assumed.         *)
(***************************************************************************)
EXTENDS Integers, Sequences, FiniteSets, TLC

(* ------------------------------------------------------------------ text *)

Digits == {"0","1","2","3","4","5","6","7","8","9"}

Lowers == {"a","b","c","d","e","f","g","h","i","j","k","l","m",
           "n","o","p","q","r","s","t","u","v","w","x","y","z"}

Uppers == {"A","B","C","D","E","F","G","H","I","J","K","L","M",
           "N","O","P","Q","R","S","T","U","V","W","X","Y","Z"}

\* [a-zA-Z0-9]
Alnum == Lowers \cup Uppers \cup Digits

s_app == <<".","a","p","p">>
s_pkg == <<".","p","k","g">>
s_zip == <<".","z","i","p">>
s_dmg == <<".","d","m","g">>
s_appslash == <<".","a","p","p","/">>
s_slashdot == <<"/",".">>
s_dotunder == <<".","_">>
s_MACOSX == <<"_","_","M","A","C","O","S","X">>
s_ext_zip == <<"e","x","t","_","z","i","p","_">>
s_ext_dmg == <<"e","x","t","_","d","m","g","_">>
s_mnt == <<"m","n","t","_">>
s_root_extract == <<"r","o","o","t","_","e","x","t","r","a","c","t">>
s_tmp == <<"t","m","p">>

\* str.startswith
StartsWith(s, p) == Len(s) >= Len(p) /\ SubSeq(s, 1, Len(p)) = p

\* str.endswith; the match of the glob pattern "*<p>" on a name
EndsWith(s, p) == Len(s) >= Len(p) /\ SubSeq(s, Len(s) - Len(p) + 1, Len(s)) = p

\* sub in s
Contains(s, sub) ==
    \E i \in 1..(Len(s) - Len(sub) + 1) : SubSeq(s, i, i + Len(sub) - 1) = sub

\* str.lower on the letters of the container extensions
Lower(s) ==
    [i \in 1..Len(s) |->
        CASE s[i] = "Z" -> "z" [] s[i] = "I" -> "i" [] s[i] = "P" -> "p"
          [] s[i] = "D" -> "d" [] s[i] = "M" -> "m" [] s[i] = "G" -> "g"
          [] OTHER -> s[i]]

\* str.rfind("."): 0 when there is no dot (positions count from 1)
RDot(s) == IF \E i \in 1..Len(s) : s[i] = "."
           THEN CHOOSE i \in 1..Len(s) : s[i] = "." /\ \A j \in (i+1)..Len(s) : s[j] # "."
           ELSE 0

\* PurePath.suffix: from the last dot, unless that dot starts or ends the name
PathSuffix(name) ==
    LET i == RDot(name)
    IN IF 1 < i /\ i < Len(name) THEN SubSeq(name, i, Len(name)) ELSE <<>>

\* PurePath.stem
PathStem(name) ==
    LET i == RDot(name)
    IN IF 1 < i /\ i < Len(name) THEN SubSeq(name, 1, i - 1) ELSE name

\* str(path) of an absolute path given by its parts
RECURSIVE PathStr(_)
PathStr(p) == IF p = <<>> THEN <<>> ELSE <<"/">> \o Head(p) \o PathStr(Tail(p))

\* p is q or an ancestor of q
IsPrefix(p, q) == Len(p) <= Len(q) /\ SubSeq(q, 1, Len(p)) = p

\* pieces of s between the occurrences of character c
RECURSIVE SplitAt(_, _)
SplitAt(s, c) ==
    IF \E i \in 1..Len(s) : s[i] = c
    THEN LET i == CHOOSE k \in 1..Len(s) : s[k] = c /\ \A j \in 1..(k-1) : s[j] # c
         IN <<SubSeq(s, 1, i - 1)>> \o SplitAt(SubSeq(s, i + 1, Len(s)), c)
    ELSE <<s>>

AllIn(s, set) == \A i \in 1..Len(s) : s[i] \in set

\* \d+
IsNumber(s) == Len(s) > 0 /\ AllIn(s, Digits)

\* FILENAME_PATTERN.match(name):  ^[a-zA-Z0-9]+-\d+\.\d+\.\d+\.(dmg|pkg|zip)$
FILENAME_PATTERN(name) ==
    \E i \in 2..Len(name) :
        /\ name[i] = "-"
        /\ AllIn(SubSeq(name, 1, i - 1), Alnum)
        /\ LET rest == SplitAt(SubSeq(name, i + 1, Len(name)), ".")
           IN /\ Len(rest) = 4
              /\ IsNumber(rest[1]) /\ IsNumber(rest[2]) /\ IsNumber(rest[3])
              /\ rest[4] \in {<<"d","m","g">>, <<"p","k","g">>, <<"z","i","p">>}

\* re.sub(r'[^a-zA-Z0-9]', '', s)
RECURSIVE Sanitize(_)
Sanitize(s) ==
    IF s = <<>> THEN <<>>
    ELSE (IF Head(s) \in Alnum THEN <<Head(s)>> ELSE <<>>) \o Sanitize(Tail(s))

(* ------------------------------------------------- files and their content *)

n_T_app == <<"T",".","a","p","p">>
n_U_app == <<"U",".","a","p","p">>
n_H_app == <<"H",".","a","p","p">>
n_AD_app == <<".","_","T",".","a","p","p">>
n_i_pkg == <<"i",".","p","k","g">>
n_a_zip == <<"a",".","z","i","p">>
n_b_zip == <<"b",".","z","i","p">>
n_x_dmg == <<"x",".","d","m","g">>
n_y_dmg == <<"y",".","d","m","g">>
n_mnt_x == <<"m","n","t","_","x">>
n_d == <<"d">>
n_e == <<"e">>
n_Contents == <<"C","o","n","t","e","n","t","s">>
n_MACOSX == <<"_","_","M","A","C","O","S","X">>
n_r_txt == <<"r",".","t","x","t">>
n_Applications == <<"A","p","p","l","i","c","a","t","i","o","n","s">>
n_VolumeIcon == <<".","V","o","l","u","m","e","I","c","o","n",".","i","c","n","s">>
v_T == <<"T">>
v_U == <<"U">>
v_2_0_1 == <<"2",".","0",".","1">>
v_2_0 == <<"2",".","0">>
v_1_0_0 == <<"1",".","0",".","0">>
f_T_zip == <<"T","_","2",".","0",".","1",".","z","i","p">>
f_U_zip == <<"U",".","z","i","p">>
f_T20_dmg == <<"T","-","2",".","0",".","d","m","g">>
f_V_dmg == <<"V",".","d","m","g">>
f_T201_dmg == <<"T","-","2",".","0",".","1",".","d","m","g">>
f_hidden == <<".","h",".","z","i","p">>
f_U100_zip == <<"U","-","1",".","0",".","0",".","z","i","p">>
f_W_zip == <<"W","-","3",".","1",".","0","_","x",".","z","i","p">>
n_P100_pkg == <<"P","-","1",".","0",".","0",".","p","k","g">>
v_sp_T == <<" ","T">>
v_3_1_0 == <<"3",".","1",".","0">>
f_txt == <<"n",".","t","x","t">>

(* What a file or directory holds.  tree/fail: a container's entries and   *)
(* how its expander behaves on it ("none": works; "error": the tool exits  *)
(* non-zero after writing the entries listed; "timeout": attach does not   *)
(* return in time).  plist..CFBundleVersion: a bundle's Contents/Info.plist *)
(* ("missing": no such file; "bad": plistlib.load raises; "ok"), defaults:  *)
(* whether the `defaults read` command works on it.  version: the          *)
(* version="..." attribute of a flat package's manifest (<<>>: none).       *)
NoData ==
    [tree |-> {}, fail |-> "none", plist |-> "missing", defaults |-> FALSE,
     CFBundleName |-> <<>>, CFBundleDisplayName |-> <<>>,
     CFBundleShortVersionString |-> <<>>, CFBundleVersion |-> <<>>,
     version |-> <<>>]

Container(tree, fail) == [NoData EXCEPT !.tree = tree, !.fail = fail]

Bundle(plist, cli, name, short) ==
    [NoData EXCEPT !.plist = plist, !.defaults = cli, !.CFBundleName = name,
                   !.CFBundleShortVersionString = short]

FlatPackage(version) == [NoData EXCEPT !.version = version]

\* an entry of a directory tree: path parts, directory or file, whether it is
\* a symbolic link to /Applications, and what it holds
Entry(path, isdir, data) == [path |-> path, isdir |-> isdir, link |-> FALSE, data |-> data]

AppsLink == [path |-> <<n_Applications>>, isdir |-> FALSE, link |-> TRUE, data |-> NoData]

(* ------------------------------------------------------- the trees tried *)

AppT == Bundle("ok", TRUE, v_T, v_2_0_1)

\* one bundle, fully described: T 2.0.1
tApp == {Entry(<<n_T_app>>, TRUE, AppT)}

\* the same bundle with the two-part version 2.0: its output is named T-2.0.dmg
tApp20 == {Entry(<<n_T_app>>, TRUE, Bundle("ok", TRUE, v_T, v_2_0))}

\* a bundle whose version no strategy yields
tNoVersion == {Entry(<<n_T_app>>, TRUE, Bundle("ok", TRUE, v_T, <<>>))}

\* nothing installable
tEmpty == {Entry(<<n_r_txt>>, FALSE, NoData)}

\* candidates at several depths, junk above them, artifacts inside a bundle
tDepths ==
    {Entry(<<n_AD_app>>, FALSE, NoData),
     Entry(<<n_MACOSX, n_T_app>>, TRUE, AppT),
     Entry(<<n_d, n_e, n_T_app>>, TRUE, AppT),
     Entry(<<n_d, n_e, n_T_app, n_Contents, n_H_app>>, TRUE, AppT),
     Entry(<<n_d, n_e, n_T_app, n_Contents, n_i_pkg>>, FALSE, FlatPackage(v_1_0_0)),
     Entry(<<n_d, n_e, n_U_app>>, TRUE, Bundle("ok", TRUE, v_U, v_2_0_1)),
     Entry(<<n_d, n_e, n_d, n_H_app>>, TRUE, AppT),
     Entry(<<n_d, n_e, n_d, n_a_zip>>, FALSE, Container(tApp, "none"))}

\* a flat package beside a bundle, and a shallower flat package
tPkg ==
    {Entry(<<n_d, n_i_pkg>>, FALSE, FlatPackage(v_1_0_0)),
     Entry(<<n_d, n_T_app>>, TRUE, AppT),
     Entry(<<n_d, n_e, n_U_app>>, TRUE, AppT)}

\* containers that lie inside a bundle only (the bundle itself is junk)
tInBundle ==
    {Entry(<<n_MACOSX, n_T_app>>, TRUE, AppT),
     Entry(<<n_MACOSX, n_T_app, n_a_zip>>, FALSE, Container(tApp, "none")),
     Entry(<<n_MACOSX, n_T_app, n_x_dmg>>, FALSE, Container(tApp, "none"))}

\* junk bundle with containers inside, beside an archive whose bundle holds
\* further artifacts
tNested ==
    tInBundle \cup
    {Entry(<<n_b_zip>>, FALSE,
           Container({Entry(<<n_T_app>>, TRUE, AppT),
                      Entry(<<n_T_app, n_Contents, n_i_pkg>>, FALSE, FlatPackage(v_1_0_0)),
                      Entry(<<n_T_app, n_Contents, n_H_app>>, TRUE, AppT)}, "none"))}

\* a chain of k archives (or disk images) around a bottom tree
RECURSIVE Chain(_, _, _)
Chain(k, name, bottom) ==
    IF k = 0 THEN bottom
    ELSE {Entry(<<name>>, FALSE, Container(Chain(k - 1, name, bottom), "none"))}

\* a disk image as a vendor ships it: the bundle, a link to /Applications, a dotfile
tVolume ==
    {Entry(<<n_T_app>>, TRUE, AppT), AppsLink,
     Entry(<<n_VolumeIcon>>, FALSE, NoData)}

\* sibling containers, the first ones broken
tSiblingZips ==
    {Entry(<<n_a_zip>>, FALSE, Container(tApp20, "error")),
     Entry(<<n_b_zip>>, FALSE, Container(tApp, "none"))}

tSiblingDmgs ==
    {Entry(<<n_x_dmg>>, FALSE, Container(tApp20, "error")),
     Entry(<<n_y_dmg>>, FALSE, Container(tVolume, "none"))}

tTimeout ==
    {Entry(<<n_x_dmg>>, FALSE, Container(tApp20, "timeout")),
     Entry(<<n_y_dmg>>, FALSE, Container(tVolume, "none"))}

\* an archive whose scan raises (a file sits where the mount point is to be
\* made), beside a good disk image
tMountPointTaken ==
    {Entry(<<n_a_zip>>, FALSE,
           Container({Entry(<<n_x_dmg>>, FALSE, Container(tApp20, "none")),
                      Entry(<<n_mnt_x>>, FALSE, NoData)}, "none")),
     Entry(<<n_y_dmg>>, FALSE, Container(tApp, "none"))}

\* an archive that holds an archive and a disk image, beside a disk image:
\* every one of them leads to the bundle
tFirstWins ==
    {Entry(<<n_a_zip>>, FALSE,
           Container({Entry(<<n_b_zip>>, FALSE, Container(tApp, "none")),
                      Entry(<<n_y_dmg>>, FALSE, Container(tApp, "none"))}, "none")),
     Entry(<<n_x_dmg>>, FALSE, Container(tApp, "none"))}

\* an archive around a disk image that holds nothing installable: the outer
\* level lists the disk image again once the inner level is through with it
tReEnumerated ==
    {Entry(<<n_a_zip>>, FALSE,
           Container({Entry(<<n_x_dmg>>, FALSE, Container(tEmpty, "none"))}, "none"))}

(* --------------------------------------------------------------- bounds *)

\* faults of the environment injected in one run (a volume that stays busy,
\* a copy that raises, a volume that appears after the attach timed out, a
\* disk-image creation that fails)
MaxFaults == 1

\* the nesting depth of the longest chain of containers tried
MaxChain == 5

\* the number of times the script is run on the inbox
MaxRuns == 2

(* ---------------------------------------------------------------- state *)

VARIABLES
    inbox,      \* UPLOAD_DIR: file name -> what the file holds
    files,      \* preprocess_files: the entries of `files` not yet iterated
    pc,         \* "start" | "loop" | "locate" | "done"
    file_path,  \* the inbox file being repacked (<<>>: none)
    attempt,    \* number of scratch workspaces made so far
    ws,         \* every entry that exists under a scratch workspace
    mounted,    \* mount points that hold an attached volume
    stack,      \* the active calls of recursive_find_app, outermost first
    ret,        \* what the outermost recursive_find_app call ended with
    faults,     \* faults injected so far
    listing,    \* history: the initial directory listing
    handled,    \* history: one record per try_repack call that ended
    last,       \* history: the record of the latest such call
    pending,    \* history: mount points attached and not yet handed to unmount_dmg
    scanned,    \* history: the depths at which a directory was scanned
    expanded,   \* history: the containers expanded or attached, in order
    detaches,   \* history: detach attempts of the unmount_dmg call under way
    runs        \* the number of runs of preprocess_files started so far

vars == <<inbox, files, pc, file_path, attempt, ws, mounted, stack, ret, faults,
          listing, handled, last, pending, scanned, expanded, detaches, runs>>

env == <<inbox, files, pc, file_path, attempt, listing, handled, last, runs>>

NoRet == [kind |-> "-", art |-> Entry(<<>>, FALSE, NoData), depth |-> -1]
NoneRet == [NoRet EXCEPT !.kind = "none"]
RaiseRet == [NoRet EXCEPT !.kind = "raise"]
FoundRet(a, d) == [kind |-> "found", art |-> a, depth |-> d]

NoLast ==
    [file |-> <<>>, before |-> NoData, result |-> "-", stage |-> "-", out |-> <<>>,
     tmp |-> <<>>]

(* ----------------------------------------------------------- file system *)

Last(p) == p[Len(p)]

Parent(p) == SubSeq(p, 1, Len(p) - 1)

\* Path.exists: an entry, or a directory on the way to one
Exists(fs, p) == \E n \in fs : IsPrefix(p, n.path)

\* an existing entry that is not a directory
IsFile(fs, p) == \E n \in fs : n.path = p /\ ~n.isdir

\* inside an attached (read-only) volume
UnderMount(mnts, p) == \E m \in mnts : IsPrefix(m, p) /\ m # p

\* the entries of tree t placed under directory dir
Placed(dir, t) == {[e EXCEPT !.path = dir \o e.path] : e \in t}

MkDir(p) == Entry(p, TRUE, NoData)

\* tempfile.TemporaryDirectory(): a fresh name for every attempt
AttemptName == <<"1", "2", "3", "4", "5", "6", "7", "8">>

temp_path(k) == <<s_tmp, <<AttemptName[k]>>>>

\* search_dir.rglob("*<suffix>")
rglob(fs, search_dir, suffix) ==
    {n \in fs : /\ IsPrefix(search_dir, n.path)
                /\ Len(n.path) > Len(search_dir)
                /\ EndsWith(Last(n.path), suffix)}

(* --------------------------------------------------- recursive_find_app *)

\* lines 86-95: the artifacts the filter drops
Excluded(art) ==
    LET name == Last(art.path)
        str == PathStr(art.path)
    IN \/ StartsWith(name, s_dotunder)
       \/ Contains(str, s_MACOSX)
       \/ (Contains(str, s_appslash) /\ PathSuffix(name) = s_pkg)
       \/ Contains(str, s_slashdot)

\* lines 82-96
final_artifacts(fs, search_dir) ==
    {art \in rglob(fs, search_dir, s_app) \cup rglob(fs, search_dir, s_pkg) :
        ~Excluded(art)}

FirstArtifactAny(fs, search_dir) == final_artifacts(fs, search_dir)

\* line 100, final_artifacts[0]: the sort by len(p.parts) is stable and the
\* *.app matches are listed before the *.pkg ones; the order in which rglob
\* yields the entries of one kind is the file system's
FirstArtifact(fs, search_dir) ==
    LET final == final_artifacts(fs, search_dir)
        shortest == {a \in final : \A b \in final : Len(a.path) <= Len(b.path)}
        apps == {a \in shortest : EndsWith(Last(a.path), s_app)}
    IN IF apps # {} THEN apps ELSE shortest

SkipContainerHiddenOnly(c) == Contains(PathStr(c.path), s_slashdot)

\* lines 107 and 125
SkipContainer(c) ==
    Contains(PathStr(c.path), s_appslash) \/ Contains(PathStr(c.path), s_slashdot)

AlreadyExtractedNever(fs, dir) == FALSE

\* lines 110 and 128: extract_dir.exists()
AlreadyExtracted(fs, dir) == Exists(fs, dir)

\* lines 109 and 127
extract_dir(prefix, c) == Parent(c.path) \o <<prefix \o PathStem(Last(c.path))>>

\* line 131
mount_point(c) == Parent(c.path) \o <<s_mnt \o PathStem(Last(c.path))>>

NoEntry == Entry(<<>>, FALSE, NoData)

Frame(dir, depth) ==
    [search_dir |-> dir, depth |-> depth, at |-> "scan", todo |-> {},
     cur |-> NoEntry, i |-> 0]

Top == stack[Len(stack)]

Front(stk) == SubSeq(stk, 1, Len(stk) - 1)

SetTop(stk, f) == [stk EXCEPT ![Len(stk)] = f]

DmgHandlerNoRelease(fs, f) == [f EXCEPT !.at = "dmgs"]

\* lines 170-173: the handler of the disk-image loop

DmgHandler(fs, f) ==
    IF Exists(fs, mount_point(f.cur)) THEN [f EXCEPT !.at = "handler", !.i = 0]
    ELSE [f EXCEPT !.at = "dmgs"]

ZipHandlerRaises(stk, f) == [stack |-> <<>>, ret |-> RaiseRet]

\* lines 119-120: the handler of the archive loop

ZipHandler(stk, f) == [stack |-> SetTop(stk, [f EXCEPT !.at = "zips"]), ret |-> NoRet]

\* a caller that goes on with its loop after the call found an artifact
UnwindGoesOn(stk, res, fs) ==
    IF stk = <<>> THEN [stack |-> <<>>, ret |-> res]
    ELSE CASE res.kind \in {"found", "none"} ->
                 [stack |-> SetTop(stk, [stk[Len(stk)] EXCEPT !.at =
                                IF stk[Len(stk)].at = "zip_call" THEN "zips" ELSE "dmgs"]),
                  ret |-> NoRet]
           [] res.kind = "raise" /\ stk[Len(stk)].at = "zip_call" ->
                 ZipHandler(stk, stk[Len(stk)])
           [] OTHER -> [stack |-> SetTop(stk, DmgHandler(fs, stk[Len(stk)])), ret |-> NoRet]

\* A call of recursive_find_app ended with res (a found artifact, None or an
\* exception); stk holds its callers, innermost last.  Lines 117-120 and
\* 164-173: a found artifact is returned by every caller in turn, None lets
\* the caller's loop go on, an exception is caught by the caller's handler.
RECURSIVE Unwind(_, _, _)
Unwind(stk, res, fs) ==
    IF stk = <<>> THEN [stack |-> <<>>, ret |-> res]
    ELSE LET f == stk[Len(stk)]
         IN CASE res.kind = "found" -> Unwind(Front(stk), res, fs)
              [] res.kind = "none" ->
                    [stack |-> SetTop(stk, [f EXCEPT !.at =
                                   IF f.at = "zip_call" THEN "zips" ELSE "dmgs"]),
                     ret |-> NoRet]
              [] res.kind = "raise" /\ f.at = "zip_call" -> ZipHandler(stk, f)
              [] OTHER -> [stack |-> SetTop(stk, DmgHandler(fs, f)), ret |-> NoRet]

\* line 75: the depth ceiling
DepthLimit == 3

TooDeepLate(depth) == depth > DepthLimit + 1

TooDeepNever(depth) == FALSE

TooDeep(depth) == depth > DepthLimit

\* lines 75-104: the ceiling, the scan for artifacts, the list of archives
Scan ==
    /\ pc = "locate" /\ stack # <<>> /\ Top.at = "scan"
    /\ IF TooDeep(Top.depth)
       THEN LET u == Unwind(Front(stack), NoneRet, ws)
            IN stack' = u.stack /\ ret' = u.ret /\ scanned' = scanned
       ELSE /\ scanned' = scanned \cup {Top.depth}
            /\ IF final_artifacts(ws, Top.search_dir) # {}
               THEN \E a \in FirstArtifact(ws, Top.search_dir) :
                       LET u == Unwind(Front(stack), FoundRet(a, Top.depth), ws)
                       IN stack' = u.stack /\ ret' = u.ret
               ELSE /\ stack' = SetTop(stack, [Top EXCEPT !.at = "zips",
                                   !.todo = rglob(ws, Top.search_dir, s_zip)])
                    /\ ret' = ret
    /\ UNCHANGED <<env, ws, mounted, faults, pending, expanded, detaches>>

\* line 116: what `unzip -n -q` leaves in the fresh directory
Unzipped(dir, zip_file) == Placed(dir, zip_file.data.tree)

\* lines 105-120: one iteration of the archive loop
NextZip ==
    /\ pc = "locate" /\ stack # <<>> /\ Top.at = "zips" /\ Top.todo # {}
    /\ \E zip_file \in Top.todo :
        LET dir == extract_dir(s_ext_zip, zip_file)
            rest == [Top EXCEPT !.todo = Top.todo \ {zip_file}]
        IN IF SkipContainer(zip_file) \/ AlreadyExtracted(ws, dir)
           THEN /\ stack' = SetTop(stack, rest)
                /\ UNCHANGED <<ws, ret, expanded>>
           ELSE IF UnderMount(mounted, dir)
           THEN \* line 111 raises on a read-only volume, outside the try
                LET u == Unwind(Front(stack), RaiseRet, ws)
                IN stack' = u.stack /\ ret' = u.ret /\ UNCHANGED <<ws, expanded>>
           ELSE /\ ws' = ws \cup {MkDir(dir)} \cup Unzipped(dir, zip_file)
                /\ expanded' = Append(expanded, zip_file.path)
                /\ IF zip_file.data.fail # "none"
                   THEN LET u == ZipHandler(stack, rest)
                        IN stack' = u.stack /\ ret' = u.ret
                   ELSE /\ stack' = Append(SetTop(stack, [rest EXCEPT !.at = "zip_call"]),
                                           Frame(dir, Top.depth + 1))
                        /\ ret' = ret
    /\ UNCHANGED <<env, mounted, faults, pending, scanned, detaches>>

\* line 123: the archive loop is over, the disk images are listed
ListDmgs ==
    /\ pc = "locate" /\ stack # <<>> /\ Top.at = "zips" /\ Top.todo = {}
    /\ stack' = SetTop(stack, [Top EXCEPT !.at = "dmgs",
                                          !.todo = rglob(ws, Top.search_dir, s_dmg)])
    /\ UNCHANGED <<env, ws, mounted, ret, faults, pending, scanned, expanded, detaches>>

\* line 175: the disk-image loop is over
Exhausted ==
    /\ pc = "locate" /\ stack # <<>> /\ Top.at = "dmgs" /\ Top.todo = {}
    /\ LET u == Unwind(Front(stack), NoneRet, ws)
       IN stack' = u.stack /\ ret' = u.ret
    /\ UNCHANGED <<env, ws, mounted, faults, pending, scanned, expanded, detaches>>


\* lines 145-151: what the copy loop takes from the mounted view: every entry
\* below an item that is no dotfile and no symbolic link to /Applications
Copied(tree) ==
    {e \in tree :
        /\ ~StartsWith(Head(e.path), <<".">>)
        /\ ~\E item \in tree : item.path = <<Head(e.path)>> /\ item.link}

\* lines 124-141 and 167-173: one iteration of the disk-image loop up to the
\* attach.  `late`: the volume appears although the attach timed out.
NextDmg ==
    /\ pc = "locate" /\ stack # <<>> /\ Top.at = "dmgs" /\ Top.todo # {}
    /\ \E dmg_file \in Top.todo, late \in BOOLEAN :
        LET dir == extract_dir(s_ext_dmg, dmg_file)
            mp == mount_point(dmg_file)
            rest == [Top EXCEPT !.todo = Top.todo \ {dmg_file}, !.cur = dmg_file]
            attached == dmg_file.data.fail = "none" \/ late
            fs == ws \cup {MkDir(dir), MkDir(mp)}
                     \cup (IF attached THEN Placed(mp, dmg_file.data.tree) ELSE {})
        IN /\ late => (dmg_file.data.fail = "timeout" /\ faults < MaxFaults)
           /\ IF SkipContainer(dmg_file) \/ AlreadyExtracted(ws, dir)
              THEN /\ ~late
                   /\ stack' = SetTop(stack, [rest EXCEPT !.cur = Top.cur])
                   /\ UNCHANGED <<ws, mounted, ret, faults, pending, expanded>>
              ELSE IF UnderMount(mounted, dir)
              THEN \* line 129 raises on a read-only volume, outside the try
                   /\ ~late
                   /\ LET u == Unwind(Front(stack), RaiseRet, ws)
                      IN stack' = u.stack /\ ret' = u.ret
                   /\ UNCHANGED <<ws, mounted, faults, pending, expanded>>
              ELSE IF IsFile(ws, mp)
              THEN \* line 132 raises FileExistsError, outside the try
                   /\ ~late
                   /\ ws' = ws \cup {MkDir(dir)}
                   /\ LET u == Unwind(Front(stack), RaiseRet, ws')
                      IN stack' = u.stack /\ ret' = u.ret
                   /\ UNCHANGED <<mounted, faults, pending, expanded>>
              ELSE /\ ws' = fs
                   /\ mounted' = IF attached THEN mounted \cup {mp} ELSE mounted
                   /\ faults' = IF late THEN faults + 1 ELSE faults
                   /\ pending' = pending \cup {mp}
                   /\ expanded' = Append(expanded, dmg_file.path)
                   /\ ret' = ret
                   /\ stack' = SetTop(stack,
                        CASE dmg_file.data.fail = "none" -> [rest EXCEPT !.at = "copy"]
                          [] dmg_file.data.fail = "timeout" ->
                                [rest EXCEPT !.at = "handler", !.i = 0]
                          [] OTHER -> DmgHandler(fs, rest))
    /\ UNCHANGED <<env, scanned, detaches>>

\* recurses into the extraction directory before the release
AfterCopyRecurses(stk, f) ==
    Append(SetTop(stk, [f EXCEPT !.at = "dmg_call"]),
           Frame(extract_dir(s_ext_dmg, f.cur), f.depth + 1))

\* line 161: after the copy loop, unmount_dmg is called
AfterCopy(stk, f) == SetTop(stk, [f EXCEPT !.at = "unmount", !.i = 0])

\* lines 143-159: the copy out of the mounted view; `raises`: listing the
\* mounted view fails
Copy ==
    /\ pc = "locate" /\ stack # <<>> /\ Top.at = "copy"
    /\ \E raises \in BOOLEAN :
        /\ raises => faults < MaxFaults
        /\ IF raises
           THEN /\ stack' = SetTop(stack, DmgHandler(ws, Top))
                /\ faults' = faults + 1
                /\ ws' = ws
           ELSE /\ stack' = AfterCopy(stack, Top)
                /\ ws' = ws \cup Placed(extract_dir(s_ext_dmg, Top.cur),
                                        Copied(Top.cur.data.tree))
                /\ faults' = faults
    /\ UNCHANGED <<env, mounted, ret, pending, scanned, expanded, detaches>>

\* line 66: range(5)
DetachTries == 5

\* gives up one attempt late
GivesUpLate(i) == i >= DetachTries

\* lines 66-71: whether unmount_dmg gives up after its (i+1)-th failed attempt
GivesUp(i) == i + 1 >= DetachTries

\* lines 161-165: after unmount_dmg on the normal path, recurse; lines 169
\* and 173: after unmount_dmg in a handler, the next disk image
AfterUnmount(stk, f) ==
    IF f.at = "unmount"
    THEN Append(SetTop(stk, [f EXCEPT !.at = "dmg_call"]),
                Frame(extract_dir(s_ext_dmg, f.cur), f.depth + 1))
    ELSE SetTop(stk, [f EXCEPT !.at = "dmgs"])

\* lines 64-71: one `hdiutil detach` of unmount_dmg, called at line 161, 169
\* or 173.  Detaching succeeds only on an attached volume, and may fail on
\* one that is busy.
Detach ==
    /\ pc = "locate" /\ stack # <<>> /\ Top.at \in {"unmount", "handler"}
    /\ LET mp == mount_point(Top.cur)
       IN \E ok \in BOOLEAN :
            /\ ok => mp \in mounted
            /\ (~ok /\ mp \in mounted /\ Top.i = 0) => faults < MaxFaults
            /\ faults' = IF ~ok /\ mp \in mounted /\ Top.i = 0 THEN faults + 1 ELSE faults
            /\ pending' = pending \ {mp}
            /\ detaches' = IF Top.i = 0 THEN 1 ELSE detaches + 1
            /\ IF ok
               THEN /\ mounted' = mounted \ {mp}
                    /\ ws' = {n \in ws : ~(IsPrefix(mp, n.path) /\ n.path # mp)}
                    /\ stack' = AfterUnmount(stack, Top)
               ELSE /\ UNCHANGED <<mounted, ws>>
                    /\ stack' = IF GivesUp(Top.i) THEN AfterUnmount(stack, Top)
                                ELSE SetTop(stack, [Top EXCEPT !.i = Top.i + 1])
    /\ UNCHANGED <<env, ret, scanned, expanded>>


(* ------------------------------------------------------------ try_repack *)

RECURSIVE DigitRun(_, _)
\* the length of the run of digits of s that starts at position i
DigitRun(s, i) ==
    IF i <= Len(s) /\ s[i] \in Digits THEN 1 + DigitRun(s, i + 1) ELSE 0

\* the third number of the pattern: c digits after the dot at position p2
VersionEnd(p2, c) == IF c > 0 THEN p2 + c ELSE 0

\* the second number: b digits after the dot at position p1, then a dot
VersionMinor(s, p1, b) ==
    IF b > 0 /\ p1 + 1 + b <= Len(s) /\ s[p1 + 1 + b] = "."
    THEN VersionEnd(p1 + 1 + b, DigitRun(s, p1 + 2 + b)) ELSE 0

\* the first number: a digits after the hyphen at position i, then a dot
VersionMajor(s, i, a) ==
    IF s[i] = "-" /\ a > 0 /\ i + 1 + a <= Len(s) /\ s[i + 1 + a] = "."
    THEN VersionMinor(s, i + 1 + a, DigitRun(s, i + 2 + a)) ELSE 0

\* -(\d+\.\d+\.\d+) matched at position i of s: the position of the last
\* character matched, 0 for no match
VersionAt(s, i) == VersionMajor(s, i, DigitRun(s, i + 1))

\* the match that starts at position i: m.start() and m.group(1)
MatchAt(s, i) == [start |-> i, version |-> SubSeq(s, i + 1, VersionAt(s, i))]

\* re.search(r'-(\d+\.\d+\.\d+)', s): the leftmost match (start 0: no match)
VersionSearch(s) ==
    IF \E i \in 1..Len(s) : VersionAt(s, i) > 0
    THEN MatchAt(s, CHOOSE k \in 1..Len(s) :
                        VersionAt(s, k) > 0 /\ \A j \in 1..(k - 1) : VersionAt(s, j) = 0)
    ELSE [start |-> 0, version |-> <<>>]

\* str.strip of the blanks and line ends a command prints
RECURSIVE Strip(_)
Strip(s) ==
    IF s # <<>> /\ Head(s) \in {" ", "\n"} THEN Strip(Tail(s))
    ELSE IF s # <<>> /\ s[Len(s)] \in {" ", "\n"} THEN Strip(SubSeq(s, 1, Len(s) - 1))
    ELSE s

\* lines 34-62: the version of the package manifest (<<>>: None)
get_pkg_info(art) == art.data.version

\* asks the inbox file's name before the package's own name
PkgFallbacksInboxFirst(name, v0, m1, m2) ==
    [app_name |-> IF v0 = <<>> /\ m1.start > 0
                  THEN SubSeq(name, 1, m1.start - 1) ELSE PathStem(name),
     version |-> IF v0 # <<>> THEN v0
                 ELSE IF m2.start > 0 THEN m2.version
                 ELSE IF m1.start > 0 THEN m1.version ELSE <<>>]

\* falls back on a default version when every source failed
PkgFallbacksDefault(name, v0, m1, m2) ==
    [app_name |-> IF v0 = <<>> /\ m1.start > 0
                  THEN SubSeq(name, 1, m1.start - 1) ELSE PathStem(name),
     version |-> IF v0 # <<>> THEN v0
                 ELSE IF m1.start > 0 THEN m1.version
                 ELSE IF m2.start > 0 THEN m2.version ELSE <<"0", ".", "0", ".", "0">>]

\* lines 212-242: the fallbacks for the version of a flat package; v0 is the
\* manifest's, m1 the match on the package's name, m2 on the inbox file's
PkgFallbacks(name, v0, m1, m2) ==
    [app_name |-> IF v0 = <<>> /\ m1.start > 0
                  THEN SubSeq(name, 1, m1.start - 1) ELSE PathStem(name),
     version |-> IF v0 # <<>> THEN v0
                 ELSE IF m1.start > 0 THEN m1.version
                 ELSE IF m2.start > 0 THEN m2.version ELSE <<>>]

\* lines 210-242: name and version of a flat package
PkgIdentity(art, inbox_name) ==
    PkgFallbacks(Last(art.path), get_pkg_info(art),
                 VersionSearch(Last(art.path)), VersionSearch(inbox_name))

\* a or b
Or(a, b) == IF a # <<>> THEN a ELSE b

\* lines 282-293: `defaults read <plist> <key>`, given the key's value
DefaultsRead(art, value) ==
    IF art.data.defaults /\ value # <<>> THEN Strip(value) ELSE <<>>

\* lines 259-272: what plistlib reads from the descriptor; nothing when
\* plistlib.load raises
Descriptor(art) ==
    [app_name |-> IF art.data.plist = "ok"
                  THEN Or(art.data.CFBundleName, art.data.CFBundleDisplayName) ELSE <<>>,
     version |-> IF art.data.plist = "ok"
                 THEN Or(art.data.CFBundleShortVersionString, art.data.CFBundleVersion)
                 ELSE <<>>]

\* queries the command for both keys, whatever the descriptor gave
QueriedAlways(desc) == {"CFBundleName", "CFBundleShortVersionString"}

\* lines 275-288: the keys `defaults read` is run for
Queried(desc) ==
    {k \in {"CFBundleName"} : desc.app_name = <<>>}
    \cup {k \in {"CFBundleShortVersionString"} : desc.version = <<>>}

\* lines 275-295: the fields after the fallback on the command; a command
\* that fails leaves the field as it was
CliFallback(art, desc, queried) ==
    [app_name |-> IF "CFBundleName" \in queried
                  THEN Or(DefaultsRead(art, art.data.CFBundleName), desc.app_name)
                  ELSE desc.app_name,
     version |-> IF "CFBundleShortVersionString" \in queried
                 THEN Or(DefaultsRead(art, art.data.CFBundleShortVersionString),
                         desc.version)
                 ELSE desc.version]

\* lines 298-300: the bundle's file name stands in for a missing name
NameFallback(art, id) ==
    [id EXCEPT !.app_name = IF id.app_name = <<>> THEN PathStem(Last(art.path))
                            ELSE id.app_name]

\* lines 259-300: name and version of a bundle that has an Info.plist
AppIdentity(art) ==
    NameFallback(art, CliFallback(art, Descriptor(art), Queried(Descriptor(art))))

\* lines 245 and 308
new_filename(id, ext) == Sanitize(id.app_name) \o <<"-">> \o id.version \o ext

\* line 324: what `hdiutil create -srcfolder <bundle>` puts into the image
BuiltImage(art, fs) ==
    Container({[e EXCEPT !.path = SubSeq(e.path, Len(art.path), Len(e.path))] :
                  e \in {n \in fs : IsPrefix(art.path, n.path)}}, "none")

\* try_repack returns None or raises at a stage
Failed(kind, stage) == [kind |-> kind, stage |-> stage, out |-> <<>>, data |-> NoData]

\* lines 240-250: the flat package is copied under its new name
PkgOutput(art, id) ==
    IF id.version = <<>> THEN Failed("none", "identity")
    ELSE [kind |-> "path", stage |-> "ok", out |-> new_filename(id, s_pkg),
          data |-> art.data]

\* lines 302-325: the bundle is packed into a disk image under its new name
AppOutput(art, id, fs, create_fails) ==
    IF id.app_name = <<>> \/ id.version = <<>> THEN Failed("none", "identity")
    ELSE IF create_fails THEN Failed("raise", "create")
    ELSE [kind |-> "path", stage |-> "ok", out |-> new_filename(id, s_dmg),
          data |-> BuiltImage(art, fs)]

\* lines 204-325, from the locator's result on: "path" with the name and
\* content of the file written to UPLOAD_DIR, "none" or "raise"; stage is
\* where the attempt ended
Repack(res, inbox_name, fs, create_fails) ==
    IF res.kind = "raise" THEN Failed("raise", "locate")
    ELSE IF res.kind # "found" THEN Failed("none", "locate")
    ELSE IF PathSuffix(Last(res.art.path)) = s_pkg
    THEN PkgOutput(res.art, PkgIdentity(res.art, inbox_name))
    ELSE IF res.art.data.plist = "missing" THEN Failed("none", "identity")
    ELSE AppOutput(res.art, AppIdentity(res.art), fs, create_fails)


(* ------------------------------------------------------ preprocess_files *)

Put(f, k, v) == [x \in DOMAIN f \cup {k} |-> IF x = k THEN v ELSE f[x]]

Remove(f, k) == [x \in DOMAIN f \ {k} |-> f[x]]

\* the tests of lines 334-342 without the one of line 338
EligibleNoPattern(name) ==
    /\ ~StartsWith(name, <<".">>)
    /\ name \in DOMAIN inbox
    /\ Lower(PathSuffix(name)) \in {s_zip, s_dmg}

\* lines 334-342: the files the loop hands to try_repack
Eligible(name) ==
    /\ ~StartsWith(name, <<".">>)
    /\ name \in DOMAIN inbox
    /\ ~FILENAME_PATTERN(name)
    /\ Lower(PathSuffix(name)) \in {s_zip, s_dmg}

\* line 331
ListInbox ==
    /\ pc = "start"
    /\ pc' = "loop"
    /\ files' = DOMAIN inbox
    /\ listing' = DOMAIN inbox
    /\ runs' = runs + 1
    /\ UNCHANGED <<inbox, file_path, attempt, ws, mounted, stack, ret, faults,
                   handled, last, pending, scanned, expanded, detaches>>

\* lines 333-342: an iteration that ends in `continue` or falls through
SkipFile ==
    /\ pc = "loop"
    /\ \E f \in files : ~Eligible(f) /\ files' = files \ {f}
    /\ UNCHANGED <<inbox, pc, file_path, attempt, ws, mounted, stack, ret, faults,
                   listing, handled, last, pending, scanned, expanded, detaches, runs>>

\* lines 344-353: where the loop goes on after try_repack ended; an
\* exception is caught ("crashed": it leaves preprocess_files)
CaughtNot(result) == IF result = "raise" THEN "crashed" ELSE "loop"

Caught(result) == "loop"

\* lines 343-345 and 179-202: try_repack up to the call of the locator.  The
\* initial `unzip -q` raises on a broken archive: the workspace is removed
\* and the loop catches the exception.
StartRepack ==
    /\ pc = "loop"
    /\ \E f \in files :
        LET tp == temp_path(attempt + 1)
            work_file == tp \o <<f>>
            work_extract_dir == tp \o <<s_root_extract>>
        IN /\ Eligible(f)
           /\ attempt' = attempt + 1
           /\ IF Lower(PathSuffix(f)) = s_zip /\ inbox[f].fail # "none"
              THEN LET rec == [file |-> f, before |-> inbox[f], result |-> "raise",
                               stage |-> "unzip", out |-> <<>>, tmp |-> tp]
                   IN /\ pc' = Caught("raise")
                      /\ files' = files \ {f}
                      /\ handled' = handled \cup {rec}
                      /\ last' = rec
                      /\ UNCHANGED <<file_path, ws, stack>>
              ELSE /\ pc' = "locate"
                   /\ file_path' = f
                   /\ stack' = <<Frame(work_extract_dir, 0)>>
                   /\ ws' = ws \cup {MkDir(work_extract_dir)} \cup
                        (IF Lower(PathSuffix(f)) = s_zip
                         THEN {Entry(work_file, FALSE, inbox[f])}
                              \cup Placed(work_extract_dir, inbox[f].tree)
                         ELSE {Entry(work_extract_dir \o <<f>>, FALSE, inbox[f])})
                   /\ UNCHANGED <<files, handled, last>>
    /\ UNCHANGED <<inbox, mounted, ret, faults, listing, pending, scanned,
                   expanded, detaches, runs>>

\* line 179, leaving the `with`: TemporaryDirectory.cleanup removes the
\* workspace; removing an attached (read-only, busy) volume fails, and the
\* error is raised out of try_repack
CleanupLeft(fs, mnts, tp) ==
    IF \E m \in mnts : IsPrefix(tp, m)
    THEN {n \in fs : \E m \in mnts : IsPrefix(tp, m) /\ IsPrefix(m, n.path)}
    ELSE {}

\* lines 346-349: the original is removed when try_repack returned a path
AfterRepack(box, f, result) == IF result = "path" THEN Remove(box, f) ELSE box

\* what the loop records of an attempt
Handled(f, before, result, stage, out, tp) ==
    [file |-> f, before |-> before, result |-> result, stage |-> stage,
     out |-> IF result = "path" THEN out ELSE <<>>, tmp |-> tp]

\* lines 315-325 and 346-353: the output r of try_repack is written, the
\* workspace tp is removed but for `left`, and the loop handles the result
Ended(r, left, tp, result) ==
    /\ ws' = {n \in ws : ~IsPrefix(tp, n.path)} \cup left
    /\ inbox' = AfterRepack(IF r.kind = "path" THEN Put(inbox, r.out, r.data) ELSE inbox,
                            file_path, result)
    /\ handled' = handled \cup {Handled(file_path, inbox[file_path], result,
                                         IF left # {} THEN "cleanup" ELSE r.stage,
                                         r.out, tp)}
    /\ last' = Handled(file_path, inbox[file_path], result,
                       IF left # {} THEN "cleanup" ELSE r.stage, r.out, tp)
    /\ pc' = Caught(result)

\* an exception of the cleanup replaces what try_repack was returning
Outcome(r, left) == IF left # {} THEN "raise" ELSE r.kind

\* lines 204-325 and 346-353: the rest of try_repack once the locator has
\* ended, the removal of the workspace, and the loop's handling of the result
Finish ==
    /\ pc = "locate" /\ stack = <<>>
    /\ \E create_fails \in BOOLEAN :
        /\ create_fails =>
              (faults < MaxFaults /\ Repack(ret, file_path, ws, TRUE).stage = "create")
        /\ faults' = IF create_fails THEN faults + 1 ELSE faults
        /\ Ended(Repack(ret, file_path, ws, create_fails),
                 CleanupLeft(ws, mounted, temp_path(attempt)),
                 temp_path(attempt),
                 Outcome(Repack(ret, file_path, ws, create_fails),
                         CleanupLeft(ws, mounted, temp_path(attempt))))
    /\ files' = files \ {file_path}
    /\ file_path' = <<>>
    /\ ret' = NoRet
    /\ UNCHANGED <<attempt, mounted, stack, listing, pending, scanned, expanded, detaches,
                   runs>>

\* the loop of line 333 is over
Done ==
    /\ pc = "loop" /\ files = {}
    /\ pc' = "done"
    /\ UNCHANGED <<inbox, files, file_path, attempt, ws, mounted, stack, ret, faults,
                   listing, handled, last, pending, scanned, expanded, detaches, runs>>

\* the script is run again; the runs modelled are those that follow a run
\* in which nothing was handed to try_repack
Rerun ==
    /\ pc = "done" /\ runs < MaxRuns /\ handled = {}
    /\ pc' = "start"
    /\ listing' = {}
    /\ UNCHANGED <<inbox, files, file_path, attempt, ws, mounted, stack, ret, faults,
                   handled, last, pending, scanned, expanded, detaches, runs>>

(* ------------------------------------------------------- the inboxes tried *)

Trees ==
    {tApp, tApp20, tNoVersion, tEmpty, tDepths, tPkg, tInBundle, tNested, tVolume,
     tSiblingZips, tSiblingDmgs, tTimeout, tMountPointTaken, tFirstWins,
     tReEnumerated}
    \cup {Chain(k, n_a_zip, tApp) : k \in 1..MaxChain}
    \cup {Chain(k, n_a_zip, tEmpty) : k \in 1..MaxChain}
    \cup {Chain(k, n_x_dmg, tApp) : k \in 1..MaxChain}

\* the file a run is about: a non-canonical archive or disk image
Subjects ==
    {<<f, Container(t, "none")>> : f \in {f_T_zip, f_T20_dmg}, t \in Trees}
    \cup {<<f_T_zip, Container(tApp, "error")>>}

\* the file that may lie beside it
Companions ==
    {<<f_U_zip, Container(tApp20, "none")>>,
     <<f_U_zip, Container(tEmpty, "error")>>,
     <<f_V_dmg, Container(tEmpty, "none")>>,
     <<f_T201_dmg, Container(tApp, "none")>>,
     <<f_hidden, Container(tApp, "none")>>,
     <<f_txt, NoData>>}

\* inboxes in which every file already has a canonical name
Canonical ==
    {(f_T201_dmg :> Container(tApp, "none")),
     (f_T201_dmg :> Container(tApp, "none")) @@ (f_U100_zip :> Container(tApp20, "none"))}

\* bundles by what their descriptor holds and whether the command reads it
IdentityBundles ==
    {[Bundle(p, c, n, v) EXCEPT !.CFBundleDisplayName = dn, !.CFBundleVersion = bv] :
        p \in {"ok", "bad"}, c \in BOOLEAN, n \in {<<>>, v_T, v_sp_T},
        v \in {<<>>, v_2_0_1}, dn \in {<<>>, v_U}, bv \in {<<>>, v_1_0_0}}

\* one artifact: a bundle, or a flat package with or without a version in
\* its manifest and in its name
IdentityTrees ==
    {{Entry(<<n_T_app>>, TRUE, d)} : d \in IdentityBundles}
    \cup {{Entry(<<n>>, FALSE, FlatPackage(v))} :
              n \in {n_i_pkg, n_P100_pkg}, v \in {<<>>, v_2_0_1}}

\* an archive around one artifact, its own name with or without a version
IdentityInboxes ==
    {(f :> Container(t, "none")) : f \in {f_T_zip, f_W_zip}, t \in IdentityTrees}

\* chains of containers around the bundle
Chains == {Chain(k, n, tApp) : k \in 1..MaxChain, n \in {n_a_zip, n_x_dmg}}

\* an archive and a disk image that hold the same chain
SameChainInboxes ==
    {(f_T_zip :> Container(t, "none")) @@ (f_V_dmg :> Container(t, "none")) : t \in Chains}

Inboxes ==
    Canonical \cup IdentityInboxes \cup SameChainInboxes
    \cup {(a[1] :> a[2]) : a \in Subjects}
    \cup {(a[1] :> a[2]) @@ (b[1] :> b[2]) : a \in Subjects, b \in Companions}

Init ==
    /\ inbox \in Inboxes
    /\ files = {}
    /\ pc = "start"
    /\ file_path = <<>>
    /\ attempt = 0
    /\ ws = {}
    /\ mounted = {}
    /\ stack = <<>>
    /\ ret = NoRet
    /\ faults = 0
    /\ listing = {}
    /\ handled = {}
    /\ last = NoLast
    /\ pending = {}
    /\ scanned = {}
    /\ expanded = <<>>
    /\ detaches = 0
    /\ runs = 0

Next ==
    \/ ListInbox
    \/ SkipFile
    \/ StartRepack
    \/ Scan
    \/ NextZip
    \/ ListDmgs
    \/ NextDmg
    \/ Copy
    \/ Detach
    \/ Exhausted
    \/ Finish
    \/ Done
    \/ Rerun

Spec == Init /\ [][Next]_vars

\* the script runs to its end: no step waits for anything
FairSpec == Spec /\ WF_vars(Next)

\* runs on one file of the trees tried on the locator, alone in the inbox or
\* beside a file the loop skips
LocateInit ==
    /\ Init
    /\ inbox \notin IdentityInboxes
    /\ (Cardinality(DOMAIN inbox) = 1 \/ f_txt \in DOMAIN inbox)

LocateSpec == LocateInit /\ [][Next]_vars /\ WF_vars(Next)


(* ----------------------------------------------------------------- claims *)

StrictPrefix(p, q) == IsPrefix(p, q) /\ p # q

\* a part of the path above its last names a bundle directory
InsideBundle(p) == \E k \in 1..(Len(p) - 1) : EndsWith(p[k], s_app)

\* C1: once preprocess_files has handled a file for which try_repack returned
\* a path, the original is gone from the inbox and the file at the returned
\* path exists in the inbox.
C1_SuccessReplacesOriginal ==
    last.result = "path" =>
        (last.file \notin DOMAIN inbox /\ last.out \in DOMAIN inbox)

\* C2: when preprocess_files is over, every file whose attempt failed at the
\* initial extraction, in the locator, in the identity resolution or in the
\* disk-image creation still exists in the inbox with the content it had.
C2_FailureLeavesOriginal ==
    pc = "done" =>
        \A r \in handled :
            r.stage \in {"unzip", "locate", "identity", "create"} =>
                (r.file \in DOMAIN inbox /\ inbox[r.file] = r.before)

\* the name tests of lines 334-342
EligibleName(name) ==
    /\ ~StartsWith(name, <<".">>)
    /\ ~FILENAME_PATTERN(name)
    /\ Lower(PathSuffix(name)) \in {s_zip, s_dmg}

\* C3: no error leaves preprocess_files, and when it is over every eligible
\* file of the initial listing has been handed to try_repack, whatever
\* happened to the files before it.
C3_EveryFileAttempted ==
    /\ pc # "crashed"
    /\ pc = "done" =>
          \A f \in listing : EligibleName(f) => \E r \in handled : r.file = f

\* C3 witness: the run is over, the first attempt raised, and the second
\* file was attempted after it.
C3_Witness ==
    /\ pc = "done"
    /\ Cardinality(handled) = 2
    /\ \E r \in handled : r # last /\ r.result = "raise"

\* C4: a mount point on which attach was invoked and unmount_dmg not yet is
\* the one of the disk image the innermost call is busy with, and that call
\* is copying or about to call unmount_dmg: it has not recursed, not moved on
\* to another candidate and not returned.
C4_AttachReleased ==
    pending # {} =>
        /\ pc = "locate" /\ stack # <<>>
        /\ Top.at \in {"copy", "unmount", "handler"}
        /\ pending = {mount_point(Top.cur)}

\* C4 witness: back at the head of the disk-image loop after an attach that
\* failed, with unmount_dmg called on its mount point.
C4_Witness ==
    /\ stack # <<>> /\ Top.at = "dmgs"
    /\ Top.cur.data.fail = "error"
    /\ \E i \in 1..Len(expanded) : expanded[i] = Top.cur.path
    /\ pending = {}
    /\ detaches = DetachTries

\* C5: after a try_repack call has ended, nothing is left of its workspace.
C5_WorkspaceRemoved ==
    \A r \in handled : ~\E n \in ws : IsPrefix(r.tmp, n.path)

\* C6, as claimed: an artifact is only returned by a scan at depth 0, 1 or 2.
C6_NoMatchAtDepth3 == ret.kind = "found" => ret.depth \in {0, 1, 2}

\* C6, amended: a call at a depth greater than 3 scans nothing and returns no
\* match; an artifact is only returned by a scan at depth 0, 1, 2 or 3.
C6_NoMatchBeyondDepth3 ==
    /\ ret.kind = "found" => ret.depth \in 0..DepthLimit
    /\ \A d \in scanned : d <= DepthLimit

\* C6 witness: a call at depth 4 on a directory that holds an artifact.
C6_Witness ==
    /\ stack # <<>> /\ Top.at = "scan" /\ Top.depth = DepthLimit + 1
    /\ final_artifacts(ws, Top.search_dir) # {}


\* C7: every call of recursive_find_app returns, no directory is scanned at a
\* depth greater than 3, and for an inbox archive that holds nothing but a
\* chain of nested archives, five archives in all or five below it, the
\* locator returns no match.
C7_BoundedDepthAndTermination ==
    /\ [](\A d \in scanned : d <= DepthLimit)
    /\ []((/\ pc = "locate" /\ stack = <<>>
           /\ inbox[file_path].tree \in {Chain(k, n_a_zip, tEmpty) : k \in 4..5})
              => ret.kind = "none")
    /\ ((pc = "locate" /\ stack # <<>>) ~> (pc = "locate" /\ stack = <<>>))

\* C7 witness: the locator has returned no match on an archive that holds a
\* chain of five more, after the call at depth 4 was made.
C7_Witness ==
    /\ pc = "locate" /\ stack = <<>> /\ ret.kind = "none"
    /\ inbox[file_path].tree = Chain(5, n_a_zip, tEmpty)
    /\ Len(expanded) = DepthLimit + 1

\* the scan of a directory that holds an artifact the filter keeps
ScansArtifacts ==
    /\ pc = "locate" /\ stack # <<>> /\ Top.at = "scan" /\ Top.depth <= DepthLimit
    /\ final_artifacts(ws, Top.search_dir) # {}

\* C8: the scan of a directory that holds artifacts the filter keeps returns
\* one of them that has the fewest path parts, and expands and mounts nothing.
C8_ShallowestWins ==
    [][ScansArtifacts =>
          /\ ret'.kind = "found"
          /\ ret'.art \in rglob(ws, Top.search_dir, s_app) \cup rglob(ws, Top.search_dir, s_pkg)
          /\ ~Excluded(ret'.art)
          /\ \A b \in rglob(ws, Top.search_dir, s_app) \cup rglob(ws, Top.search_dir, s_pkg) :
                ~Excluded(b) => Len(ret'.art.path) <= Len(b.path)
          /\ ws' = ws /\ mounted' = mounted /\ expanded' = expanded]_vars

\* C8 witness: the artifact returned has a deeper kept candidate below the
\* same directory and junk candidates above it.
C8_Witness ==
    /\ pc = "locate" /\ stack = <<>> /\ ret.kind = "found"
    /\ \E b \in ws : /\ EndsWith(Last(b.path), s_app) /\ ~Excluded(b)
                     /\ Len(b.path) > Len(ret.art.path)
    /\ \E x \in ws : /\ EndsWith(Last(x.path), s_app) /\ Excluded(x)
                     /\ Len(x.path) < Len(ret.art.path)

\* C9: the artifact a scan returns does not lie inside a bundle matched by
\* that scan, and no container that lies inside a bundle is expanded or
\* attached.
C9_NothingFromInsideBundle ==
    [][/\ (pc = "locate" /\ stack # <<>> /\ Top.at = "scan" /\ ret'.kind = "found") =>
             \A b \in rglob(ws, Top.search_dir, s_app) : ~StrictPrefix(b.path, ret'.art.path)
       /\ expanded' # expanded => ~InsideBundle(expanded'[Len(expanded')])]_vars

\* C9 witness: the bundle returned holds a flat package and a bundle, and an
\* archive and a disk image that lie inside a bundle were never expanded.
C9_Witness ==
    /\ pc = "locate" /\ stack = <<>> /\ ret.kind = "found"
    /\ \E n \in ws : StrictPrefix(ret.art.path, n.path) /\ EndsWith(Last(n.path), s_pkg)
    /\ \E n \in ws : StrictPrefix(ret.art.path, n.path) /\ EndsWith(Last(n.path), s_app)
    /\ \E z \in ws : /\ EndsWith(Last(z.path), s_zip) /\ InsideBundle(z.path)
                     /\ \A i \in 1..Len(expanded) : expanded[i] # z.path
    /\ \E z \in ws : /\ EndsWith(Last(z.path), s_dmg) /\ InsideBundle(z.path)
                     /\ \A i \in 1..Len(expanded) : expanded[i] # z.path
    /\ expanded # <<>>

\* C10: a step of the locator that expands or attaches a candidate keeps the
\* call it belongs to and takes only that candidate off its list, also when
\* the expansion or the attach fails; unless an artifact is found, no step
\* ends a call that waits for a recursive scan or changes its list; and an
\* exception leaves the locator only from the outermost call itself, before
\* it expanded anything in that step.
C10_FailureSkipsOneCandidate ==
    [][(pc = "locate" /\ stack # <<>>) =>
          /\ expanded' # expanded =>
                /\ Len(stack') >= Len(stack)
                /\ \E c \in Top.todo :
                      /\ c.path = expanded'[Len(expanded')]
                      /\ stack'[Len(stack)].todo = Top.todo \ {c}
                /\ stack'[Len(stack)].search_dir = Top.search_dir
          /\ ret'.kind # "found" =>
                \A k \in 1..(Len(stack) - 1) :
                    /\ k <= Len(stack')
                    /\ stack'[k].todo = stack[k].todo
                    /\ stack'[k].at \in {stack[k].at, "zips", "dmgs", "handler"}
          /\ ret'.kind = "raise" => (Len(stack) = 1 /\ expanded' = expanded)]_vars

\* C10 witness: a candidate was expanded or attached after one of the same
\* directory that failed.
C10_Witness ==
    /\ pc = "locate"
    /\ \E i \in 1..Len(expanded), j \in 1..Len(expanded) :
          /\ i < j
          /\ Parent(expanded[i]) = Parent(expanded[j])
          /\ \E n \in ws : n.path = expanded[i] /\ n.data.fail # "none"


\* C11: the file try_repack wrote into the inbox has a name that matches
\* FILENAME_PATTERN.
C11_OutputNameCanonical ==
    \A r \in handled : r.result = "path" => FILENAME_PATTERN(r.out)


\* every file of the listing has a canonical name
AllCanonical == listing # {} /\ \A f \in listing : FILENAME_PATTERN(f)

\* C12: in a run whose listing holds canonical names only, no step mounts,
\* extracts, makes a workspace or changes the inbox: every step skips a file
\* or ends the run, and the run that follows lists the same files.
C12_CanonicalInboxUntouched ==
    [][(AllCanonical /\ pc \in {"loop", "done"}) =>
          /\ inbox' = inbox /\ ws' = ws /\ mounted' = mounted
          /\ attempt' = attempt /\ expanded' = expanded /\ stack' = stack
          /\ handled' = handled
          /\ pc' \in {"loop", "done", "start"}
          /\ pc' = "start" => DOMAIN inbox' = listing]_vars

\* C12 witness: the second run on two canonical files is over, and nothing
\* was ever attempted, extracted or mounted.
C12_Witness ==
    /\ pc = "done" /\ runs = 2 /\ AllCanonical /\ Cardinality(listing) = 2
    /\ attempt = 0 /\ ws = {} /\ mounted = {} /\ expanded = <<>>
    /\ inbox \in Canonical


\* unmount_dmg is under way in the innermost call
Unmounting == pc = "locate" /\ stack # <<>> /\ Top.at \in {"unmount", "handler"}

\* C13: a detach attempt of unmount_dmg is at most the fifth of its call and
\* raises nothing; the call returns to the locator after an attempt that
\* detached the volume and after the fifth attempt, and only then.
C13_BoundedDetach ==
    [][Unmounting =>
          /\ detaches' = Top.i + 1 /\ detaches' <= DetachTries
          /\ pc' = "locate" /\ ret' = ret /\ Len(stack') >= Len(stack)
          /\ (stack'[Len(stack)].at \notin {"unmount", "handler"})
                <=> (\/ mount_point(Top.cur) \in mounted \ mounted'
                     \/ detaches' = DetachTries)
          /\ (stack'[Len(stack)].at \in {"unmount", "handler"})
                => (mounted' = mounted /\ stack'[Len(stack)].i = Top.i + 1)]_vars

\* C13 witness: unmount_dmg has returned after five failed attempts, the
\* volume is still attached, and the locator scans the extraction directory.
C13_Witness ==
    /\ pc = "locate" /\ Len(stack) >= 2 /\ Top.at = "scan"
    /\ stack[Len(stack) - 1].at = "dmg_call"
    /\ detaches = DetachTries
    /\ mount_point(stack[Len(stack) - 1].cur) \in mounted


\* try_repack is about to resolve the identity of the bundle the locator found
ResolvesBundle ==
    /\ pc = "locate" /\ stack = <<>> /\ ret.kind = "found"
    /\ PathSuffix(Last(ret.art.path)) # s_pkg
    /\ ret.art.data.plist # "missing"

\* C14: the command is run for a field only when the descriptor left that
\* field empty; a field the descriptor gave is the field of the identity; with
\* both fields given the command is not run at all, and the output is named
\* after the descriptor's name and version.
C14_CliOnlyForMissingFields ==
    [][ResolvesBundle =>
          /\ "CFBundleName" \in Queried(Descriptor(ret.art))
                => Descriptor(ret.art).app_name = <<>>
          /\ "CFBundleShortVersionString" \in Queried(Descriptor(ret.art))
                => Descriptor(ret.art).version = <<>>
          /\ Descriptor(ret.art).app_name # <<>>
                => AppIdentity(ret.art).app_name = Descriptor(ret.art).app_name
          /\ Descriptor(ret.art).version # <<>>
                => AppIdentity(ret.art).version = Descriptor(ret.art).version
          /\ (Descriptor(ret.art).app_name # <<>> /\ Descriptor(ret.art).version # <<>>)
                => /\ Queried(Descriptor(ret.art)) = {}
                   /\ AppIdentity(ret.art) = Descriptor(ret.art)
                   /\ last'.result = "path"
                        => last'.out = new_filename(Descriptor(ret.art), s_dmg)]_vars

\* C14 witness: an output named after a descriptor that gave both fields,
\* where the command would have answered with another name.
C14_Witness ==
    /\ last.result = "path"
    /\ \E e \in last.before.tree :
          /\ e.data.plist = "ok" /\ e.data.defaults
          /\ e.data.CFBundleName = v_sp_T
          /\ e.data.CFBundleShortVersionString = v_2_0_1
          /\ Strip(e.data.CFBundleName) # e.data.CFBundleName
          /\ last.out = new_filename(Descriptor(e), s_dmg)


\* no source holds a version for the artifact: not the descriptor's two keys
\* nor the command for a bundle; not the manifest, the package's name nor the
\* inbox file's name for a flat package
NoVersionAnywhere(art, inbox_name) ==
    IF PathSuffix(Last(art.path)) = s_pkg
    THEN /\ art.data.version = <<>>
         /\ \A i \in 1..Len(Last(art.path)) : VersionAt(Last(art.path), i) = 0
         /\ \A i \in 1..Len(inbox_name) : VersionAt(inbox_name, i) = 0
    ELSE /\ (\/ art.data.plist # "ok"
             \/ (art.data.CFBundleShortVersionString = <<>> /\ art.data.CFBundleVersion = <<>>))
         /\ (~art.data.defaults \/ Strip(art.data.CFBundleShortVersionString) = <<>>)

\* C15: when no source holds a version for the artifact found, try_repack
\* returns no path, the inbox is left as it is, and the original stays.
C15_NoVersionFails ==
    [][(/\ pc = "locate" /\ stack = <<>> /\ ret.kind = "found"
        /\ NoVersionAnywhere(ret.art, file_path)) =>
          /\ last'.file = file_path
          /\ last'.result # "path" /\ last'.out = <<>>
          /\ last'.stage \in {"identity", "cleanup"}
          /\ inbox' = inbox]_vars

\* C15 witness: the attempt on a flat package without a version in its
\* manifest, its name and the inbox file's name has failed, the inbox is as it
\* was.
C15_Witness ==
    /\ last.result = "none" /\ last.stage = "identity"
    /\ last.file = f_T_zip
    /\ last.before.tree = {Entry(<<n_i_pkg>>, FALSE, FlatPackage(<<>>))}
    /\ inbox = (f_T_zip :> last.before)


\* try_repack is about to resolve the identity of the flat package found
ResolvesPackage ==
    /\ pc = "locate" /\ stack = <<>> /\ ret.kind = "found"
    /\ PathSuffix(Last(ret.art.path)) = s_pkg

\* v is three numbers joined by dots, and s holds it after a hyphen
VersionIn(s, v) ==
    /\ Len(SplitAt(v, ".")) = 3
    /\ \A k \in 1..3 : IsNumber(SplitAt(v, ".")[k])
    /\ Contains(s, <<"-">> \o v)

\* s holds three numbers joined by dots after a hyphen
Versioned(s) == \E i \in 1..Len(s), j \in 1..Len(s) : VersionIn(s, SubSeq(s, i, j))

\* C16: the version of a flat package is the manifest's when it has one;
\* else one matched in the package's file name when there is a match; else
\* one matched in the inbox file's name; and the output carries it.
C16_PkgVersionOrder ==
    [][ResolvesPackage =>
          /\ ret.art.data.version # <<>>
                => PkgIdentity(ret.art, file_path).version = ret.art.data.version
          /\ (ret.art.data.version = <<>> /\ Versioned(Last(ret.art.path)))
                => VersionIn(Last(ret.art.path), PkgIdentity(ret.art, file_path).version)
          /\ (ret.art.data.version = <<>> /\ ~Versioned(Last(ret.art.path))
                /\ Versioned(file_path))
                => VersionIn(file_path, PkgIdentity(ret.art, file_path).version)
          /\ last'.result = "path"
                => EndsWith(last'.out,
                            <<"-">> \o PkgIdentity(ret.art, file_path).version \o s_pkg)]_vars

\* C16 witness: the package's own name gave the version although the inbox
\* file's name holds another one.
C16_Witness ==
    /\ last.result = "path" /\ last.file = f_W_zip
    /\ last.before.tree = {Entry(<<n_P100_pkg>>, FALSE, FlatPackage(<<>>))}
    /\ last.out = <<"P", "-">> \o v_1_0_0 \o s_pkg
    /\ VersionIn(f_W_zip, v_3_1_0)


\* name, a hyphen and version start s
NameBeforeVersion(s, name, version) == StartsWith(s, name \o <<"-">> \o version)

\* C17, as claimed: a flat package whose manifest has no version and whose
\* version was matched in a file name, its own or else the inbox file's, is
\* named by what stands before the match in that file name.
C17_NameIsPrefixOfMatchedFile ==
    [][(ResolvesPackage /\ ret.art.data.version = <<>>) =>
          /\ Versioned(Last(ret.art.path))
                => NameBeforeVersion(Last(ret.art.path),
                                     PkgIdentity(ret.art, file_path).app_name,
                                     PkgIdentity(ret.art, file_path).version)
          /\ (~Versioned(Last(ret.art.path)) /\ Versioned(file_path))
                => NameBeforeVersion(file_path,
                                     PkgIdentity(ret.art, file_path).app_name,
                                     PkgIdentity(ret.art, file_path).version)]_vars


\* a call of recursive_find_app that scans a directory holding an artifact
\* the filter keeps
FindsArtifact ==
    /\ pc = "locate" /\ stack # <<>> /\ Top.at = "scan" /\ ~TooDeep(Top.depth)
    /\ final_artifacts(ws, Top.search_dir) # {}

\* C18: when a call of recursive_find_app at any level finds an artifact,
\* every level returns at once and that artifact is what the outermost call
\* returns; from then to the end of the attempt no archive is expanded and
\* no disk image is attached.
C18_FirstSuccessWins ==
    [][/\ FindsArtifact =>
            /\ stack' = <<>>
            /\ ret' = FoundRet(ret'.art, Top.depth)
            /\ ret'.art \in final_artifacts(ws, Top.search_dir)
       /\ (pc = "locate" /\ ret.kind = "found") =>
            /\ stack' = <<>>
            /\ expanded' = expanded
            /\ mounted' = mounted
            /\ pending' = pending]_vars

\* C18 witness: the bundle was found two levels down while an unopened disk
\* image is left at each of the two levels above.
C18_Witness ==
    /\ pc = "locate" /\ ret.kind = "found" /\ ret.depth = 2
    /\ inbox[file_path].tree = tFirstWins
    /\ Len(expanded) = 2
    /\ \E y \in ws : Last(y.path) = n_y_dmg /\ ~Exists(ws, extract_dir(s_ext_dmg, y))
    /\ \E x \in ws : Last(x.path) = n_x_dmg /\ ~Exists(ws, extract_dir(s_ext_dmg, x))


\* the step that calls recursive_find_app on the extraction directory of a
\* disk image
RecursesIntoImage ==
    /\ stack # <<>> /\ Len(stack') = Len(stack) + 1
    /\ stack'[Len(stack)].at = "dmg_call"

\* C19: the call on the extraction directory of a disk image is made by the
\* step that ends unmount_dmg, after the attach and the copy out: the image
\* was attached, what the copy loop takes is in the extraction directory,
\* and a detach of its mount point has been tried.  Whenever a directory is
\* about to be scanned, no mount point attached by the locator is still to
\* be handed to unmount_dmg.
C19_ReleaseBeforeScan ==
    [][/\ RecursesIntoImage =>
            /\ Top.at = "unmount"
            /\ Top.cur.path \in {expanded[k] : k \in 1..Len(expanded)}
            /\ Placed(extract_dir(s_ext_dmg, Top.cur), Copied(Top.cur.data.tree)) \subseteq ws
            /\ detaches' >= 1
            /\ mount_point(Top.cur) \notin pending'
            /\ stack'[Len(stack')].search_dir = extract_dir(s_ext_dmg, Top.cur)
       /\ (stack' # <<>> /\ stack'[Len(stack')].at = "scan") => pending' = {}]_vars

\* C19 witness: the extraction directory of a disk image is about to be
\* scanned after a failed detach: the volume is still attached, and its
\* release has been tried.
C19_Witness ==
    /\ pc = "locate" /\ Len(stack) >= 2 /\ Top.at = "scan"
    /\ stack[Len(stack) - 1].at = "dmg_call"
    /\ mount_point(stack[Len(stack) - 1].cur) \in mounted
    /\ detaches = DetachTries
    /\ pending = {}


\* the extraction directory of container c in the loop frame f is in
ExtractDirOf(f, c) ==
    extract_dir(IF f.at = "zips" THEN s_ext_zip ELSE s_ext_dmg, c)

\* the step is the iteration of a container loop that takes c
Iterates(c) ==
    /\ Len(stack') >= Len(stack)
    /\ stack'[Len(stack)].todo = Top.todo \ {c}

\* C20: no container file is expanded or attached twice: the containers
\* expanded so far are all different, one is expanded only when its
\* extraction directory does not exist yet, and the iteration that meets a
\* container whose extraction directory exists leaves the work space alone
\* and goes on with the loop, whichever level made that directory.
C20_ExpandedOnce ==
    [][/\ \A i, j \in 1..Len(expanded') : expanded'[i] = expanded'[j] => i = j
       /\ expanded' # expanded =>
            /\ stack # <<>> /\ Top.at \in {"zips", "dmgs"}
            /\ \E c \in Top.todo :
                  /\ expanded' = Append(expanded, c.path)
                  /\ ~Exists(ws, ExtractDirOf(Top, c))
                  /\ Exists(ws', ExtractDirOf(Top, c))
       /\ (pc = "locate" /\ stack # <<>> /\ Top.at \in {"zips", "dmgs"}) =>
            \A c \in Top.todo :
                (Exists(ws, ExtractDirOf(Top, c)) /\ Iterates(c)) =>
                    /\ stack' = SetTop(stack, [Top EXCEPT !.todo = Top.todo \ {c}])
                    /\ UNCHANGED <<ws, mounted, expanded, pending>>]_vars

\* C20 witness: the outermost level has listed the disk image that the
\* level below attached, and has passed over it.
C20_Witness ==
    /\ pc = "locate" /\ Len(stack) = 1 /\ Top.at = "dmgs" /\ Top.todo = {}
    /\ inbox[file_path].tree = tReEnumerated
    /\ Len(expanded) = 2
    /\ \E c \in rglob(ws, Top.search_dir, s_dmg) : c.path = expanded[2]


\* C21: a step of preprocess_files leaves every inbox file other than the
\* one being processed in place with its content, be it a file with a
\* canonical name or the output written earlier for another file; the only
\* name a step adds to the inbox is the output of the file being processed.
C21_OtherInboxFilesUntouched ==
    [][/\ \A g \in DOMAIN inbox :
            g # file_path => (g \in DOMAIN inbox' /\ inbox'[g] = inbox[g])
       /\ \A g \in DOMAIN inbox' \ DOMAIN inbox :
            /\ pc = "locate" /\ stack = <<>>
            /\ g = Repack(ret, file_path, ws, FALSE).out]_vars


\* C22: when an archive and a disk image of the inbox hold the same chain of
\* containers around a bundle and nothing failed in the environment, the
\* locator finds the bundle for the one exactly if it finds it for the
\* other.
C22_SameLayersForBothKinds ==
    \A r, q \in handled :
        (/\ faults = 0
         /\ r.before = q.before /\ r.before.tree \in Chains
         /\ Lower(PathSuffix(r.file)) = s_zip
         /\ Lower(PathSuffix(q.file)) = s_dmg)
        => (r.stage = "locate" <=> q.stage = "locate")

====
